---- MODULE Spec2Model ----
(***************************************************************************)
(* Hospital management back office (steve-ongera/TeleMedicine, app         *)
(* "hospital"): the session/login views and read endpoints of views.py and *)
(* the record store and derived properties of models.py.                   *)
(*                                                                         *)
(* Time is counted in ticks; TicksPerDay ticks make a calendar day, so a   *)
(* DateTimeField holds a tick and a DateField a day number (days since 1   *)
(* January of BaseYear, negative before it).  A nullable field holds <<>>  *)
(* (None) or <<v>>.                                                        *)
(* Money is counted in cents.                                              *)
(***************************************************************************)
EXTENDS Integers, Sequences, FiniteSets, TLC

\* ---------------------------------------------------------------- bounds
TicksPerDay == 2
MaxTicks == 2
BaseYear == 2023
StartDay == 425
MaxBeds == 2
MaxQty == 2
MaxCents == 400

VARIABLES
    session,       \* the user the session is authenticated as, or AnonymousUser
    users,         \* User store: username -> record
    request,       \* the request the last step answered (NoRequest: none)
    response,      \* the response to it
    now,           \* timezone.now(), in ticks
    departments,   \* Department store: id -> record
    patients,      \* Patient store: id -> record
    wards,         \* Ward store: id -> record
    appointments,  \* Appointment store: id -> record
    items,         \* PrescriptionItem store: id -> record
    admissions,    \* Admission store: id -> record
    bills,         \* Bill store: id -> record
    batches,       \* MedicineBatch store: id -> record
    beds,          \* Bed store: id -> record
    transfers,     \* BedTransfer store: id -> record
    prescriptions, \* Prescription store: id -> record
    bill_items,    \* BillItem store: id -> record
    lab_orders,    \* LabOrder store: id -> record
    lab_results,   \* LabResult store: id -> record
    forms          \* admin change forms in flight: editor -> the row it loaded

\* the stores of the bed, transfer and line-item records and their parents
wardside == <<beds, transfers, prescriptions, bill_items, lab_orders, lab_results>>

store ==
    <<departments, patients, wards, appointments, items, admissions, bills,
      batches, wardside>>
web == <<session, request, response>>
vars == <<session, users, request, response, now, departments, patients, wards,
          appointments, items, admissions, bills, batches, beds, transfers,
          prescriptions, bill_items, lab_orders, lab_results, forms>>

\* ------------------------------------------------------------- utilities
Min(a, b) == IF a < b THEN a ELSE b

\* A store with no rows.
NoRows == [x \in {} |-> x]

\* The rows of a store that satisfy a filter.
Filter(rows, P(_)) == {id \in DOMAIN rows : P(rows[id])}

\* Sum over the rows S of the amounts f[id].
RECURSIVE SumOver(_, _)
SumOver(S, f) ==
    IF S = {} THEN 0
    ELSE LET x == CHOOSE y \in S : TRUE IN f[x] + SumOver(S \ {x}, f)

Reverse(s) == [i \in 1..Len(s) |-> s[Len(s) + 1 - i]]

\* The text values of the model in the database's collation order, and the
\* place of one of them in it (the key of an order_by on a text column).
Collation ==
    <<"Alice", "Bob", "Medical", "Medicine", "Surgery", "Surgical">>

Collate(text) == CHOOSE i \in 1..Len(Collation) : Collation[i] = text

Range(s) == {s[i] : i \in 1..Len(s)}

\* The sequences that list every element of S exactly once.
Orderings(S) ==
    {s \in [1..Cardinality(S) -> S] : Range(s) = S}

\* Python's s[:n]
Take(s, n) == SubSeq(s, 1, Min(n, Len(s)))

\* The results of QuerySet.order_by on the rows S: every ordering of S over
\* which key never decreases (rows with equal keys come in any order).
OrderBy(S, key(_)) ==
    {s \in Orderings(S) : \A i \in 1..(Len(s) - 1) : key(s[i]) <= key(s[i + 1])}

\* -------------------------------------------------------------- outcomes
NoBody == [empty |-> TRUE]

\* An exception that leaves the code that was called; a view that lets it
\* out is answered with the framework's error page.
Raised(exception) ==
    [kind |-> "exception", status |-> 500, target |-> "", template |-> "",
     messages |-> <<exception>>, body |-> NoBody]

\* A property that returns a value to its caller.
Returned(value) ==
    [kind |-> "value", status |-> 0, target |-> "", template |-> "",
     messages |-> <<>>, body |-> [value |-> value]]

\* ---------------------------------------------------------------- dates
IsLeap(y) == (y % 4 = 0 /\ y % 100 # 0) \/ y % 400 = 0

DaysInMonth(y, m) ==
    IF m = 2 THEN (IF IsLeap(y) THEN 29 ELSE 28)
    ELSE IF m \in {4, 6, 9, 11} THEN 30 ELSE 31

DaysInYear(y) == IF IsLeap(y) THEN 366 ELSE 365

RECURSIVE DaysBeforeYear(_)
DaysBeforeYear(y) ==
    IF y = BaseYear THEN 0
    ELSE IF y > BaseYear THEN DaysBeforeYear(y - 1) + DaysInYear(y - 1)
    ELSE DaysBeforeYear(y + 1) - DaysInYear(y)

RECURSIVE DaysBeforeMonth(_, _)
DaysBeforeMonth(y, m) ==
    IF m <= 1 THEN 0 ELSE DaysBeforeMonth(y, m - 1) + DaysInMonth(y, m - 1)

\* date(y, m, d) as a day number
ToDay(y, m, d) == DaysBeforeYear(y) + DaysBeforeMonth(y, m) + (d - 1)

RECURSIVE YearOf(_, _)
YearOf(n, y) ==
    IF n < 0 THEN YearOf(n + DaysInYear(y - 1), y - 1)
    ELSE IF n < DaysInYear(y) THEN y
    ELSE YearOf(n - DaysInYear(y), y + 1)

RECURSIVE MonthOf(_, _, _)
MonthOf(n, y, m) ==
    IF n < DaysInMonth(y, m) THEN m ELSE MonthOf(n - DaysInMonth(y, m), y, m + 1)

\* the year, month and day of a day number
Year(n) == YearOf(n, BaseYear)
Month(n) == MonthOf(n - DaysBeforeYear(Year(n)), Year(n), 1)
DayOfMonth(n) == n - ToDay(Year(n), Month(n), 1) + 1

\* d.replace(day=1)
ReplaceDay1(n) == ToDay(Year(n), Month(n), 1)

\* datetime.date(): the day a tick falls in
DateOf(t) == t \div TicksPerDay

\* timezone.now().date()
today == DateOf(now)

\* ------------------------------------------------------- models.py: User
AnonymousUser == "AnonymousUser"
UserNames == {"alice", "bob"}
Roles == {"admin", "registered_nurse"}
Passwords == {"pw-alice", "pw-bob"}
PatientIds == {"p1", "p2"}
AppointmentIds == {"ap1", "ap2"}
Doctors == {"dr-otieno", "dr-wanjiru"}

\* ---------------------------------------------------- models.py: Patient
\* Python's (a, b) < (c, d) on pairs of integers
TupleLess(a, b) == a[1] < b[1] \/ (a[1] = b[1] /\ a[2] < b[2])

\* (faulty variant: the birthday counts only from the day after)
age_after_birthday(p) ==
    IF (p.estimated_age # <<>> /\ p.estimated_age[1] # 0) /\ p.date_of_birth = <<>>
    THEN Returned(p.estimated_age[1])
    ELSE IF p.date_of_birth = <<>> THEN Raised("AttributeError")
    ELSE LET dob == p.date_of_birth[1] IN
         Returned(Year(today) - Year(dob) -
                  (IF ~TupleLess(<<Month(dob), DayOfMonth(dob)>>,
                                 <<Month(today), DayOfMonth(today)>>)
                   THEN 1 ELSE 0))

\* Patient.age: an estimated_age of None or 0 is false, a date_of_birth of
\* None is false, and None has no attribute year
age(p) ==
    IF (p.estimated_age # <<>> /\ p.estimated_age[1] # 0) /\ p.date_of_birth = <<>>
    THEN Returned(p.estimated_age[1])
    ELSE IF p.date_of_birth = <<>> THEN Raised("AttributeError")
    ELSE LET dob == p.date_of_birth[1] IN
         Returned(Year(today) - Year(dob) -
                  (IF TupleLess(<<Month(today), DayOfMonth(today)>>,
                                <<Month(dob), DayOfMonth(dob)>>)
                   THEN 1 ELSE 0))

\* ------------------------------------------------- models.py: Department
DepartmentIds == {"d1", "d2"}

\* The names the ORM resolves on Department: its fields, those of BaseModel,
\* and the related_name of every ForeignKey that points to Department.
DepartmentFields ==
    {"id", "created_at", "updated_at", "created_by", "updated_by", "is_active",
     "name", "code", "department_type", "description", "head_of_department",
     "deputy_head", "location_building", "location_floor", "location_wing",
     "phone_extension", "email", "established_date", "bed_capacity",
     "staff_capacity",
     "staff_assignments", "wards", "appointments", "referral_appointments",
     "medical_records", "laboratories"}

\* ------------------------------------------------------- models.py: Ward
WardIds == {"w1", "w2"}
WardNames == {"Medical", "Surgical"}

WardRecords ==
    [name : WardNames, is_active : BOOLEAN, department : {"d1"},
     bed_capacity : 0..MaxBeds, current_occupancy : 0..MaxBeds]

\* Ward.available_beds
available_beds(w) == w.bed_capacity - w.current_occupancy

\* A Python number as a fraction in lowest terms, <<numerator, denominator>>.
RECURSIVE Gcd(_, _)
Gcd(a, b) == IF b = 0 THEN a ELSE Gcd(b, a % b)

Fraction(n, d) == <<n \div Gcd(n, d), d \div Gcd(n, d)>>

\* (faulty variant: integer division)
occupancy_rate_floordiv(w) ==
    IF w.bed_capacity = 0 THEN <<0, 1>>
    ELSE <<(w.current_occupancy \div w.bed_capacity) * 100, 1>>

\* Ward.occupancy_rate; the quotient is kept exact
occupancy_rate(w) ==
    IF w.bed_capacity = 0 THEN <<0, 1>>
    ELSE Fraction(w.current_occupancy * 100, w.bed_capacity)

\* -------------------------------------------------------- models.py: Bed
BedIds == {"bed1", "bed2"}
BED_STATUS == {"available", "occupied", "maintenance", "reserved", "isolation"}

\* ------------------------------------------------ models.py: BedTransfer
TransferIds == {"t1", "t2"}

\* -------------------------------------------------- models.py: Admission
AdmissionIds == {"a1", "a2"}
ADMISSION_STATUS ==
    {"admitted", "discharged", "transferred", "absconded", "died", "referred"}

\* timedelta(...).days of the difference b - a of two datetimes: whole days,
\* rounded down (a negative difference of less than a day has days = -1).
Days(a, b) == (b - a) \div TicksPerDay

\* (faulty variant: decided by status, an admitted patient is measured to now)
length_of_stay_by_status(a) ==
    IF a.status # "admitted" /\ a.discharge_date # <<>>
    THEN Days(a.admission_date, a.discharge_date[1])
    ELSE Days(a.admission_date, now)

\* (faulty variant: always measured to now)
length_of_stay_now(a) == Days(a.admission_date, now)

\* Admission.length_of_stay
length_of_stay(a) ==
    IF a.discharge_date # <<>>
    THEN Days(a.admission_date, a.discharge_date[1])
    ELSE Days(a.admission_date, now)

\* ---------------------------------------------- models.py: MedicineBatch
BatchIds == {"mb1", "mb2"}

\* (faulty variant: a batch is expired from its expiry date on)
is_expired_on_expiry_date(b) == today >= b.expiry_date

\* MedicineBatch.is_expired
is_expired(b) == today > b.expiry_date

\* MedicineBatch.days_to_expiry: the difference of two dates is whole days
days_to_expiry(b) == b.expiry_date - today

\* ------------------------------------------------------- models.py: Bill
BillIds == {"b1", "b2"}
BILL_STATUS ==
    {"draft", "pending", "partially_paid", "fully_paid", "overdue", "cancelled",
     "waived"}

\* The names the ORM resolves on Bill: its fields, those of BaseModel, and the
\* related_name of BillItem.bill.  balance_amount and is_overdue are Python
\* properties, not fields.
BillFields ==
    {"id", "created_at", "updated_at", "created_by", "updated_by", "is_active",
     "bill_number", "patient", "admission", "appointment", "bill_date",
     "bill_type", "due_date", "status", "subtotal", "discount_amount",
     "discount_percentage", "tax_amount", "total_amount", "paid_amount",
     "insurance_claim_number", "insurance_approved_amount",
     "insurance_paid_amount", "generated_by", "approved_by", "notes", "items"}

\* (faulty variant: the amount billed, whatever was paid)
balance_amount_billed(b) == b.total_amount

\* Bill.balance_amount
balance_amount(b) == b.total_amount - b.paid_amount

\* (faulty variant: a bill is overdue from its due date on)
is_overdue_from_due_date(b) ==
    b.status \in {"pending", "partially_paid"} /\ today >= b.due_date

\* Bill.is_overdue
is_overdue(b) == b.status \in {"pending", "partially_paid"} /\ today > b.due_date

\* ------------------------------------------------------------- views.py
ChartTypes ==
    {"monthly_admissions", "department_patients", "ward_occupancy", "bogus",
     "WARD_OCCUPANCY"}
LOGIN_URL == "login"
PatientListLimit == 50
PendingBillsLimit == 10
WardOccupancyLimit == 6

Request(view, method, username, password, chart_type) ==
    [view |-> view, method |-> method, username |-> username,
     password |-> password, chart_type |-> chart_type]

Get(view) == Request(view, "GET", "", "", "")

\* no request: the last step was not the answer to one
NoRequest == Request("", "", "", "", "")

NoResponse ==
    [kind |-> "none", status |-> 0, target |-> "", template |-> "",
     messages |-> <<>>, body |-> NoBody]

\* redirect(to)
Redirect(to) ==
    [kind |-> "redirect", status |-> 302, target |-> to, template |-> "",
     messages |-> <<>>, body |-> NoBody]

\* render(request, template, context), with the messages queued on the request
Render(template, msgs, context) ==
    [kind |-> "render", status |-> 200, target |-> "", template |-> template,
     messages |-> msgs, body |-> [context |-> context]]

\* JsonResponse(payload, status=status)
JsonResponse(payload, status) ==
    [kind |-> "json", status |-> status, target |-> "", template |-> "",
     messages |-> <<>>, body |-> payload]

\* the evaluation of a property of a model instance, as a request
PropertyRead(property, row) ==
    [view |-> property, method |-> "", username |-> "", password |-> "",
     chart_type |-> "", row |-> row]

\* The ORM resolving the first component of a lookup on a model.
CanResolve(fields, keyword) == keyword \in fields

\* django.contrib.auth.authenticate: <<user>> when the account exists, is
\* active and has this password, <<>> (None) otherwise.
authenticate(username, password) ==
    IF /\ username \in DOMAIN users
       /\ users[username].password = password
       /\ users[username].is_active
    THEN <<username>> ELSE <<>>

\* django.contrib.auth.login: the session is bound to the user and the
\* user_logged_in signal stores the user's last_login.
login(user) ==
    /\ session' = user
    /\ users' = [users EXCEPT ![user].last_login = <<now>>]

\* (faulty variant: a view left without the decorator)
login_required_off == TRUE

\* @login_required: the session's user is authenticated
login_required == session # AnonymousUser

\* (faulty variant: login_view without the role check)
login_view_post_norole(username, password) ==
    LET user == authenticate(username, password) IN
    /\ request' = Request("login", "POST", username, password, "")
    /\ IF user # <<>>
       THEN /\ login(user[1])
            /\ response' = Redirect("dashboard")
       ELSE /\ response' = Render("hospital/login.html",
                                  <<"Invalid username or password.">>, NoRows)
            /\ UNCHANGED <<session, users>>
    /\ UNCHANGED <<now, store, forms>>

\* (faulty variant: login_view calling login() before it checks the role)
login_view_post_loginfirst(username, password) ==
    LET user == authenticate(username, password) IN
    /\ request' = Request("login", "POST", username, password, "")
    /\ IF user # <<>>
       THEN /\ login(user[1])
            /\ response' =
                 IF users[user[1]].role = "admin"
                 THEN Redirect("dashboard")
                 ELSE Render("hospital/login.html",
                             <<"Access denied. Admin privileges required.">>, NoRows)
       ELSE /\ response' = Render("hospital/login.html",
                                  <<"Invalid username or password.">>, NoRows)
            /\ UNCHANGED <<session, users>>
    /\ UNCHANGED <<now, store, forms>>

\* login_view, POST
login_view_post(username, password) ==
    LET user == authenticate(username, password) IN
    /\ request' = Request("login", "POST", username, password, "")
    /\ IF user # <<>>
       THEN IF users[user[1]].role = "admin"
            THEN /\ login(user[1])
                 /\ response' = Redirect("dashboard")
            ELSE /\ response' = Render("hospital/login.html",
                                       <<"Access denied. Admin privileges required.">>,
                                       NoRows)
                 /\ UNCHANGED <<session, users>>
       ELSE /\ response' = Render("hospital/login.html",
                                  <<"Invalid username or password.">>, NoRows)
            /\ UNCHANGED <<session, users>>
    /\ UNCHANGED <<now, store, forms>>

\* login_view, any other method
login_view_get ==
    /\ request' = Get("login")
    /\ response' = Render("hospital/login.html", <<>>, NoRows)
    /\ UNCHANGED <<session, users, now, store, forms>>

\* logout_view
logout_view ==
    /\ request' = Get("logout")
    /\ session' = AnonymousUser
    /\ response' = Redirect("login")
    /\ UNCHANGED <<users, now, store, forms>>

\* The monthly series of dashboard, billing_summary and chart_data: entry i
\* (0 = the current month) covers month_start(i)..month_end(i).
month_start(i) == ReplaceDay1(today) - 30 * i

month_end(i) == ReplaceDay1(month_start(i) + 32) - 1

\* strftime('%b %Y'): the month and the year
MonthLabel(n) == <<Month(n), Year(n)>>

AdmittedIn(first, last) ==
    Filter(admissions, LAMBDA a : DateOf(a.admission_date) \in first..last)

monthly_admissions ==
    Reverse([k \in 1..6 |->
        [month |-> MonthLabel(month_start(k - 1)),
         count |-> Cardinality(AdmittedIn(month_start(k - 1), month_end(k - 1)))]])

\* aggregate(total=Sum('total_amount'))['total'] or 0, over the bills S
TotalAmount(S) == SumOver(S, [id \in DOMAIN bills |-> bills[id].total_amount])

\* the revenue of the fully paid bills dated first..last
Revenue(first, last) ==
    TotalAmount(Filter(bills, LAMBDA b : /\ DateOf(b.bill_date) \in first..last
                                         /\ b.status = "fully_paid"))

monthly_revenue ==
    Reverse([k \in 1..6 |->
        [month |-> MonthLabel(month_start(k - 1)),
         revenue |-> Revenue(month_start(k - 1), month_end(k - 1))]])

\* Ward.objects.filter(is_active=True).values('name', 'bed_capacity',
\* 'current_occupancy')[:6]: the query states no order, so the rows come in
\* any order.
ward_occupancy ==
    {[i \in 1..Len(Take(s, WardOccupancyLimit)) |->
        [name |-> wards[s[i]].name, bed_capacity |-> wards[s[i]].bed_capacity,
         current_occupancy |-> wards[s[i]].current_occupancy]] :
     s \in Orderings(Filter(wards, LAMBDA w : w.is_active))}

\* dashboard: Bed.objects.filter(is_active=True).count()
total_beds == Cardinality(Filter(beds, LAMBDA b : b.is_active))

\* dashboard: Admission.objects.filter(status='admitted').count()
current_admissions == Cardinality(Filter(admissions, LAMBDA a : a.status = "admitted"))

\* dashboard: Bed.objects.filter(status='available', is_active=True).count()
dashboard_available_beds ==
    Cardinality(Filter(beds, LAMBDA b : b.status = "available" /\ b.is_active))

\* round(n / d, 1) in tenths: to the nearest tenth, a tie to the even one
Round1(n, d) ==
    LET q == (10 * n) \div d
        r == (10 * n) % d
    IN  IF 2 * r < d THEN q
        ELSE IF 2 * r > d THEN q + 1
        ELSE IF q % 2 = 0 THEN q ELSE q + 1

\* dashboard: bed_occupancy_rate, in tenths of a percent
bed_occupancy_rate ==
    IF total_beds > 0 THEN Round1(current_admissions * 100, total_beds) ELSE 0

\* dashboard
dashboard ==
    /\ request' = Get("dashboard")
    /\ IF ~login_required
       THEN response' = Redirect(LOGIN_URL)
       ELSE IF ~CanResolve(BillFields, "balance_amount")
       THEN response' = Raised("FieldError")      \* Sum('balance_amount')
       ELSE IF ~CanResolve(DepartmentFields, "admissions")
       THEN response' = Raised("FieldError")      \* Count('admissions__patient')
       ELSE \E wo \in ward_occupancy :
            response' = Render("hospital/dashboard.html", <<>>,
              [total_patients |-> Cardinality(Filter(patients, LAMBDA p : p.is_active)),
               total_staff |-> Cardinality(Filter(users,
                                 LAMBDA u : u.is_active /\ u.role # "admin")),
               total_departments |->
                   Cardinality(Filter(departments, LAMBDA d : d.is_active)),
               total_beds |-> total_beds,
               current_admissions |-> current_admissions,
               available_beds |-> dashboard_available_beds,
               bed_occupancy_rate |-> bed_occupancy_rate,
               today_appointments |-> Cardinality(Filter(appointments,
                   LAMBDA a : /\ a.appointment_date = today
                              /\ a.status \in {"scheduled", "confirmed",
                                               "checked_in", "in_progress"})),
               today_admissions |-> Cardinality(AdmittedIn(today, today)),
               today_discharges |-> Cardinality(Filter(admissions,
                   LAMBDA a : /\ a.discharge_date # <<>>
                              /\ DateOf(a.discharge_date[1]) = today)),
               total_revenue |-> TotalAmount(Filter(bills,
                   LAMBDA b : /\ DateOf(b.bill_date) >= today - 30
                              /\ b.status = "fully_paid")),
               monthly_admissions |-> monthly_admissions,
               ward_occupancy |-> wo])
    /\ UNCHANGED <<session, users, now, store, forms>>

\* patient_list
patient_list ==
    /\ request' = Get("patient_list")
    /\ IF ~login_required
       THEN response' = Redirect(LOGIN_URL)
       ELSE \E s \in OrderBy(Filter(patients, LAMBDA p : p.is_active),
                             LAMBDA id : 0 - patients[id].created_at) :
            response' = Render("hospital/patient_list.html", <<>>,
                               [patients |-> Take(s, PatientListLimit)])
    /\ UNCHANGED <<session, users, now, store, forms>>

\* admission_list
admission_list ==
    /\ request' = Get("admission_list")
    /\ IF ~login_required
       THEN response' = Redirect(LOGIN_URL)
       ELSE \E s \in OrderBy(Filter(admissions, LAMBDA a : a.status = "admitted"),
                             LAMBDA id : 0 - admissions[id].admission_date) :
            response' = Render("hospital/admission_list.html", <<>>,
                               [admissions |-> s])
    /\ UNCHANGED <<session, users, now, store, forms>>

\* appointment_list
appointment_list ==
    /\ request' = Get("appointment_list")
    /\ IF ~login_required
       THEN response' = Redirect(LOGIN_URL)
       ELSE \E s \in OrderBy(Filter(appointments,
                                    LAMBDA a : a.appointment_date = today),
                             LAMBDA id : appointments[id].appointment_time) :
            response' = Render("hospital/appointment_list.html", <<>>,
                               [appointments |-> s, date |-> today])
    /\ UNCHANGED <<session, users, now, store, forms>>

\* staff_list
staff_list ==
    /\ request' = Get("staff_list")
    /\ IF ~login_required
       THEN response' = Redirect(LOGIN_URL)
       ELSE \E s \in OrderBy(Filter(users, LAMBDA u : u.is_active /\ u.role # "admin"),
                             LAMBDA id : Collate(users[id].first_name)) :
            response' = Render("hospital/staff_list.html", <<>>, [staff |-> s])
    /\ UNCHANGED <<session, users, now, store, forms>>

\* department_list
department_list ==
    /\ request' = Get("department_list")
    /\ IF ~login_required
       THEN response' = Redirect(LOGIN_URL)
       ELSE \E s \in OrderBy(Filter(departments, LAMBDA d : d.is_active),
                             LAMBDA id : Collate(departments[id].name)) :
            response' = Render("hospital/department_list.html", <<>>,
                               [departments |-> s])
    /\ UNCHANGED <<session, users, now, store, forms>>

\* ward_status
ward_status ==
    /\ request' = Get("ward_status")
    /\ IF ~login_required
       THEN response' = Redirect(LOGIN_URL)
       ELSE \E s \in OrderBy(Filter(wards, LAMBDA w : w.is_active),
                             LAMBDA id : Collate(wards[id].name)) :
            response' = Render("hospital/ward_status.html", <<>>, [wards |-> s])
    /\ UNCHANGED <<session, users, now, store, forms>>

\* billing_summary
billing_summary ==
    /\ request' = Get("billing_summary")
    /\ IF ~login_required
       THEN response' = Redirect(LOGIN_URL)
       ELSE \E s \in OrderBy(Filter(bills, LAMBDA b :
                                 b.status \in {"pending", "partially_paid"}),
                             LAMBDA id : 0 - bills[id].bill_date) :
            response' = Render("hospital/billing_summary.html", <<>>,
                               [today_revenue |-> Revenue(today, today),
                                pending_bills |-> Take(s, PendingBillsLimit),
                                monthly_revenue |-> monthly_revenue])
    /\ UNCHANGED <<session, users, now, store, forms>>

\* (faulty variant: chart_data whose last branch takes every other chart type)
chart_data_fallthrough(chart_type) ==
    /\ request' = Request("chart_data", "GET", "", "", chart_type)
    /\ IF ~login_required
       THEN response' = Redirect(LOGIN_URL)
       ELSE IF chart_type = "monthly_admissions"
       THEN response' = JsonResponse([data |-> monthly_admissions], 200)
       ELSE IF chart_type = "department_patients"
       THEN response' = Raised("FieldError")
       ELSE \E wo \in ward_occupancy : response' = JsonResponse([data |-> wo], 200)
    /\ UNCHANGED <<session, users, now, store, forms>>

\* chart_data
chart_data(chart_type) ==
    /\ request' = Request("chart_data", "GET", "", "", chart_type)
    /\ IF ~login_required
       THEN response' = Redirect(LOGIN_URL)
       ELSE IF chart_type = "monthly_admissions"
       THEN response' = JsonResponse([data |-> monthly_admissions], 200)
       ELSE IF chart_type = "department_patients"
       THEN IF ~CanResolve(DepartmentFields, "admissions")
            THEN response' = Raised("FieldError")  \* Count('admissions__patient')
            ELSE response' = JsonResponse([data |-> <<>>], 200)  \* no such relation
       ELSE IF chart_type = "ward_occupancy"
       THEN \E wo \in ward_occupancy : response' = JsonResponse([data |-> wo], 200)
       ELSE response' = JsonResponse([error |-> "Invalid chart type"], 400)
    /\ UNCHANGED <<session, users, now, store, forms>>

\* admin.py, CustomUserAdmin: an administrator saves a user with another role
UserAdminSave(u, role) ==
    /\ u \in DOMAIN users
    /\ users' = [users EXCEPT ![u].role = role]
    /\ request' = NoRequest
    /\ response' = NoResponse
    /\ UNCHANGED <<session, now, store, forms>>

\* ------------------------------------------------- the web specification
StartTick == StartDay * TicksPerDay

InitUsers ==
    ("alice" :> [role |-> "admin", password |-> "pw-alice", is_active |-> TRUE,
                 first_name |-> "Alice", last_login |-> <<>>,
                 employee_number |-> <<"EMP-1">>, national_id |-> "1234567"]) @@
    ("bob" :> [role |-> "registered_nurse", password |-> "pw-bob",
               is_active |-> TRUE, first_name |-> "Bob", last_login |-> <<>>,
               employee_number |-> <<>>, national_id |-> "7654321"])

EmptyStore ==
    <<NoRows, NoRows, NoRows, NoRows, NoRows, NoRows, NoRows, NoRows, NoRows,
      NoRows>>

SampleStore ==
    << ("d1" :> [name |-> "Medicine", is_active |-> TRUE]) @@
       ("d2" :> [name |-> "Surgery", is_active |-> FALSE]),
       ("p1" :> [is_active |-> TRUE, created_at |-> StartTick - 3,
                 date_of_birth |-> <<ToDay(2000, 6, 15)>>,
                 estimated_age |-> <<>>]) @@
       ("p2" :> [is_active |-> TRUE, created_at |-> StartTick - 3,
                 date_of_birth |-> <<ToDay(2000, 2, 29)>>,
                 estimated_age |-> <<5>>]),
       ("w1" :> [name |-> "Medical", is_active |-> TRUE, department |-> "d1",
                 bed_capacity |-> 2, current_occupancy |-> 1]) @@
       ("w2" :> [name |-> "Surgical", is_active |-> TRUE, department |-> "d2",
                 bed_capacity |-> 0, current_occupancy |-> 0]),
       ("ap1" :> [doctor |-> "dr-otieno", appointment_date |-> StartDay,
                  appointment_time |-> 9, status |-> "scheduled"]),
       ("i1" :> [prescription |-> "rx1", quantity_dispensed |-> 2,
                 unit_price |-> 150, total_price |-> 300]),
       ("a1" :> [admission_date |-> StartTick - 1, discharge_date |-> <<>>,
                 status |-> "admitted", assigned_bed |-> <<"bed1">>,
                 patient |-> "p1"]) @@
       ("a2" :> [admission_date |-> StartTick - 40 * TicksPerDay,
                 discharge_date |-> <<StartTick - 38 * TicksPerDay>>,
                 status |-> "discharged", assigned_bed |-> <<>>,
                 patient |-> "p2"]),
       ("b1" :> [bill_date |-> StartTick, due_date |-> StartDay + 1,
                 status |-> "pending", total_amount |-> 500, paid_amount |-> 100,
                 admission |-> <<"a1">>]) @@
       ("b2" :> [bill_date |-> StartTick - 1, due_date |-> StartDay,
                 status |-> "fully_paid", total_amount |-> 300,
                 paid_amount |-> 300, admission |-> <<>>]),
       ("mb1" :> [expiry_date |-> StartDay, quantity_remaining |-> 1]),
       ("bed1" :> [ward |-> "w1", status |-> "occupied", is_active |-> TRUE]) @@
       ("bed2" :> [ward |-> "w1", status |-> "available", is_active |-> TRUE]),
       ("rx1" :> [status |-> "pending"]) >>

\* time passes
Tick ==
    /\ now < StartTick + MaxTicks
    /\ now' = now + 1
    /\ request' = NoRequest
    /\ response' = NoResponse
    /\ UNCHANGED <<session, users, store, forms>>

Init ==
    /\ session = AnonymousUser
    /\ users = InitUsers
    /\ request = NoRequest
    /\ response = NoResponse
    /\ now = StartTick
    /\ \E st \in {EmptyStore, SampleStore} :
         /\ departments = st[1]
         /\ patients = st[2]
         /\ wards = st[3]
         /\ appointments = st[4]
         /\ items = st[5]
         /\ admissions = st[6]
         /\ bills = st[7]
         /\ batches = st[8]
         /\ beds = st[9]
         /\ prescriptions = st[10]
    /\ transfers = NoRows /\ bill_items = NoRows
    /\ lab_orders = NoRows /\ lab_results = NoRows
    /\ forms = NoRows

Next ==
    \/ \E u \in UserNames \cup {"mallory"}, p \in Passwords : login_view_post(u, p)
    \/ login_view_get
    \/ logout_view
    \/ dashboard
    \/ patient_list
    \/ admission_list
    \/ appointment_list
    \/ staff_list
    \/ department_list
    \/ ward_status
    \/ billing_summary
    \/ \E chart_type \in ChartTypes : chart_data(chart_type)
    \/ \E u \in UserNames, role \in Roles : UserAdminSave(u, role)
    \/ Tick

Spec == Init /\ [][Next]_vars

\* ------------------------------------------------------ claims C1 .. C5
READ_VIEWS ==
    {"dashboard", "patient_list", "admission_list", "appointment_list",
     "staff_list", "department_list", "ward_status", "billing_summary",
     "chart_data"}

RECOGNIZED_CHARTS == {"monthly_admissions", "department_patients", "ward_occupancy"}

AccessDenied ==
    Render("hospital/login.html", <<"Access denied. Admin privileges required.">>,
           NoRows)

\* the step answers a POST to login_view
IsLoginPost == request'.view = "login" /\ request'.method = "POST"

\* the credentials of that POST are valid for an account: the account, else <<>>
PostedUser == authenticate(request'.username, request'.password)

\* C1: the session starts unauthenticated, and a step makes it authenticated
\* as user U only when it answers a POST to login_view with valid credentials
\* of U while U's role is 'admin'; a POST with valid credentials of a non-admin
\* leaves the session as it was and re-renders the login form with the
\* access-denied message; a POST with valid admin credentials authenticates
\* the session as that user and redirects to the dashboard.
C1_OnlyAdminLoginAuthenticates ==
    /\ session = AnonymousUser
    /\ [][/\ (session' # session /\ session' # AnonymousUser) =>
                /\ IsLoginPost
                /\ PostedUser = <<session'>>
                /\ users[session'].role = "admin"
          /\ (IsLoginPost /\ PostedUser # <<>>) =>
                IF users[PostedUser[1]].role = "admin"
                THEN session' = PostedUser[1] /\ response' = Redirect("dashboard")
                ELSE session' = session /\ response' = AccessDenied]_vars

\* C1 witness: with the session authenticated by an earlier admin login, a
\* POST with the valid credentials of a non-admin was answered "access denied".
C1_Witness ==
    /\ session = "alice"
    /\ request = Request("login", "POST", "bob", "pw-bob", "")
    /\ users["bob"].role # "admin"
    /\ response = AccessDenied

\* C2: a rejected login (a POST to login_view with invalid credentials or with
\* valid credentials of a non-admin account) and a GET to login_view leave the
\* session's user, the users and every stored record as they were.
C2_RejectedLoginChangesNothing ==
    [][(/\ request'.view = "login"
        /\ \/ request'.method = "GET"
           \/ PostedUser = <<>>
           \/ users[PostedUser[1]].role # "admin") =>
            /\ session' = session
            /\ users' = users
            /\ store' = store]_vars

\* C2 witness: a login with invalid credentials was rejected while the session
\* stayed authenticated as the user who had logged in before.
C2_Witness ==
    /\ session = "alice"
    /\ users["alice"].last_login # <<>>
    /\ request = Request("login", "POST", "alice", "pw-bob", "")
    /\ response.messages = <<"Invalid username or password.">>

\* C3: whenever one of the nine read endpoints has answered an unauthenticated
\* session, the answer is a redirect to login carrying no data; and logout_view
\* always leaves the session unauthenticated.
C3_UnauthenticatedRedirected ==
    /\ (request.view \in READ_VIEWS /\ session = AnonymousUser) =>
            /\ response.kind = "redirect"
            /\ response.target = LOGIN_URL
            /\ response.body = NoBody
    /\ request.view = "logout" => session = AnonymousUser

\* C3 witness: after a successful login and a logout, a chart_data request was
\* redirected.
C3_Witness ==
    /\ users["alice"].last_login # <<>>
    /\ session = AnonymousUser
    /\ request.view = "chart_data"
    /\ response = Redirect(LOGIN_URL)

\* C4: an authenticated chart_data request with an unrecognized chart_type is
\* answered {"error": "Invalid chart type"} with status 400, raises nothing and
\* leaves every stored record as it was.
C4_InvalidChartType ==
    [][(/\ request'.view = "chart_data"
        /\ session # AnonymousUser
        /\ request'.chart_type \notin RECOGNIZED_CHARTS) =>
            /\ response' = JsonResponse([error |-> "Invalid chart type"], 400)
            /\ users' = users
            /\ store' = store]_vars

\* C4 witness: an authenticated request for chart type "bogus" got status 400.
C4_Witness ==
    /\ session # AnonymousUser
    /\ request.view = "chart_data"
    /\ request.chart_type = "bogus"
    /\ response.status = 400

\* C5: every authenticated chart_data request for one of the three recognized
\* chart types is answered with status 200 and a payload {"data": <list>}.
C5_RecognizedChartsSucceed ==
    (/\ request.view = "chart_data"
     /\ session # AnonymousUser
     /\ request.chart_type \in RECOGNIZED_CHARTS) =>
        /\ response.kind = "json"
        /\ response.status = 200
        /\ DOMAIN response.body = {"data"}

\* ------------------------------------------------------------------------
\* The record store: rows are written through Model.save(), as the admin
\* console of admin.py does for every registered model.
\* ------------------------------------------------------------------------

\* the state outside the store
idle == <<session, users>>

IdleWeb ==
    /\ session = AnonymousUser
    /\ users = InitUsers
    /\ request = NoRequest
    /\ response = NoResponse

\* a save of a row of a model, as the request the last step answered
SaveRequest(model, id, row) ==
    [view |-> "admin", method |-> "POST", username |-> "", password |-> "",
     chart_type |-> "", model |-> model, id |-> id, row |-> row]

\* the answer to a save that was committed
Saved == Redirect("admin:changelist")

\* ---------------------------------------------------- models.py: Ward, saves
\* WardAdmin add view: Ward.save() of a new row
WardCreate(id, row) ==
    /\ id \notin DOMAIN wards
    /\ wards' = wards @@ (id :> row)
    /\ UNCHANGED <<idle, request, response, now, departments, patients,
                   appointments, items, admissions, bills,
                   batches,
                   wardside, forms>>

\* WardAdmin change view: Ward.save() of an existing row
WardUpdate(id, row) ==
    /\ id \in DOMAIN wards
    /\ wards' = [wards EXCEPT ![id] = row]
    /\ UNCHANGED <<idle, request, response, now, departments, patients,
                   appointments, items, admissions, bills,
                   batches,
                   wardside, forms>>

\* nobody is logged in, no form is open, and the tables are empty but for the
\* given wards, beds and prescriptions
InitRows(ward_rows, bed_rows, prescription_rows) ==
    /\ IdleWeb
    /\ now = StartTick
    /\ wards = ward_rows /\ beds = bed_rows /\ prescriptions = prescription_rows
    /\ departments = NoRows /\ patients = NoRows
    /\ appointments = NoRows /\ items = NoRows /\ admissions = NoRows
    /\ bills = NoRows /\ batches = NoRows
    /\ transfers = NoRows
    /\ bill_items = NoRows /\ lab_orders = NoRows /\ lab_results = NoRows
    /\ forms = NoRows

InitStore == InitRows(NoRows, NoRows, NoRows)

NextWard ==
    \/ \E id \in WardIds, row \in WardRecords : WardCreate(id, row)
    \/ \E id \in WardIds, row \in WardRecords : WardUpdate(id, row)

SpecWard == InitStore /\ [][NextWard]_vars

\* --------------------------------------------- models.py: Appointment, saves
AppointmentDates == {StartDay, StartDay + 1}
AppointmentTimes == {9, 10}
APPOINTMENT_STATUS ==
    {"scheduled", "confirmed", "checked_in", "in_progress", "completed",
     "cancelled", "no_show", "rescheduled"}

AppointmentRecords ==
    [doctor : Doctors, appointment_date : AppointmentDates,
     appointment_time : AppointmentTimes, status : {"scheduled", "cancelled"}]

\* (faulty variant: cancelled appointments do not hold their slot)
unique_together_open(rows) ==
    \A a, b \in DOMAIN rows :
        (/\ a # b
         /\ rows[a].status # "cancelled"
         /\ rows[b].status # "cancelled") =>
            <<rows[a].doctor, rows[a].appointment_date, rows[a].appointment_time>> #
            <<rows[b].doctor, rows[b].appointment_date, rows[b].appointment_time>>

\* Appointment.Meta.unique_together = ['doctor', 'appointment_date',
\* 'appointment_time'], as the constraint on the table
unique_together(rows) ==
    \A a, b \in DOMAIN rows :
        a # b =>
            <<rows[a].doctor, rows[a].appointment_date, rows[a].appointment_time>> #
            <<rows[b].doctor, rows[b].appointment_date, rows[b].appointment_time>>

\* Appointment.save(): the write is committed when the table keeps its
\* constraint, and raises IntegrityError otherwise
AppointmentWrite(id, row) ==
    LET written == [a \in DOMAIN appointments \cup {id} |->
                        IF a = id THEN row ELSE appointments[a]] IN
    /\ request' = SaveRequest("Appointment", id, row)
    /\ IF unique_together(written)
       THEN /\ appointments' = written
            /\ response' = Saved
       ELSE /\ appointments' = appointments
            /\ response' = Raised("IntegrityError")
    /\ UNCHANGED <<idle, now, departments, patients, wards, items, admissions,
                   bills,
                   batches,
                   wardside, forms>>

\* AppointmentAdmin add view
AppointmentCreate(id, row) ==
    /\ id \notin DOMAIN appointments
    /\ AppointmentWrite(id, row)

\* AppointmentAdmin change view
AppointmentUpdate(id, row) ==
    /\ id \in DOMAIN appointments
    /\ AppointmentWrite(id, row)

\* AppointmentAdmin delete view
AppointmentDelete(id) ==
    /\ id \in DOMAIN appointments
    /\ appointments' = [a \in DOMAIN appointments \ {id} |-> appointments[a]]
    /\ request' = NoRequest
    /\ response' = NoResponse
    /\ UNCHANGED <<idle, now, departments, patients, wards, items, admissions,
                   bills,
                   batches,
                   wardside, forms>>

NextAppointment ==
    \/ \E id \in AppointmentIds, row \in AppointmentRecords :
            AppointmentCreate(id, row)
    \/ \E id \in AppointmentIds, row \in AppointmentRecords :
            AppointmentUpdate(id, row)
    \/ \E id \in AppointmentIds : AppointmentDelete(id)

SpecAppointment == InitStore /\ [][NextAppointment]_vars

\* ---------------------------------------- models.py: PrescriptionItem, saves
ItemIds == {"i1", "i2"}
PrescriptionIds == {"rx1"}
UnitPrices == {0, 150, 250}
SuppliedTotals == {0, 300, 999}

\* DecimalField(max_digits=10, decimal_places=2): the largest amount a column
\* holds, scaled down to MaxCents cents
FitsDecimal(cents) == cents <= MaxCents

\* (faulty variant: a total_price the caller supplied is kept)
PrescriptionItem_save_keep(row) ==
    [row EXCEPT !.total_price =
        IF row.total_price # 0 THEN row.total_price
        ELSE row.quantity_dispensed * row.unit_price]

\* PrescriptionItem.save(): total_price is recomputed before the row is stored
PrescriptionItem_save(row) ==
    [row EXCEPT !.total_price = row.quantity_dispensed * row.unit_price]

\* super().save(): the row is stored unless its total_price overflows the
\* column, which raises and stores nothing
ItemWrite(id, row) ==
    LET saved == PrescriptionItem_save(row) IN
    /\ request' = SaveRequest("PrescriptionItem", id, row)
    /\ IF FitsDecimal(saved.total_price)
       THEN /\ items' = [i \in DOMAIN items \cup {id} |->
                            IF i = id THEN saved ELSE items[i]]
            /\ response' = Saved
       ELSE /\ items' = items
            /\ response' = Raised("InvalidOperation")
    /\ UNCHANGED <<idle, now, departments, patients, wards, appointments,
                   admissions, bills,
                   batches,
                   wardside, forms>>

\* PrescriptionItemInline, a new line: the form supplies every field
ItemCreate(id, prescription, quantity_dispensed, unit_price, total_price) ==
    /\ id \notin DOMAIN items
    /\ prescription \in DOMAIN prescriptions
    /\ ItemWrite(id, [prescription |-> prescription,
                      quantity_dispensed |-> quantity_dispensed,
                      unit_price |-> unit_price, total_price |-> total_price])

\* PrescriptionItemInline, an existing line
ItemUpdate(id, quantity_dispensed, unit_price, total_price) ==
    /\ id \in DOMAIN items
    /\ ItemWrite(id, [prescription |-> items[id].prescription,
                      quantity_dispensed |-> quantity_dispensed,
                      unit_price |-> unit_price, total_price |-> total_price])

NextItem ==
    \/ \E id \in ItemIds, rx \in PrescriptionIds, q \in 0..MaxQty,
          p \in UnitPrices, t \in SuppliedTotals :
            ItemCreate(id, rx, q, p, t)
    \/ \E id \in ItemIds, q \in 0..MaxQty, p \in UnitPrices, t \in SuppliedTotals :
            ItemUpdate(id, q, p, t)

\* one prescription is stored, without lines
InitItem == InitRows(NoRows, NoRows, "rx1" :> [status |-> "pending"])

SpecItem == InitItem /\ [][NextItem]_vars

\* ----------------------------------------------- models.py: Admission, saves
AdmissionTimes == StartTick..(StartTick + MaxTicks)

AdmissionRecords ==
    [admission_date : AdmissionTimes,
     discharge_date : {<<>>} \cup {<<t>> : t \in AdmissionTimes},
     status : {"admitted", "discharged"}, assigned_bed : {<<>>},
     patient : {"p1"}]

\* AdmissionAdmin add view: Admission.save() of a new row
AdmissionCreate(id, row) ==
    /\ id \notin DOMAIN admissions
    /\ Range(row.assigned_bed) \subseteq DOMAIN beds
    /\ admissions' = admissions @@ (id :> row)
    /\ UNCHANGED <<idle, request, response, now, departments, patients, wards,
                   appointments, items, bills,
                   batches,
                   wardside, forms>>

\* AdmissionAdmin change view: Admission.save() of an existing row
AdmissionUpdate(id, row) ==
    /\ id \in DOMAIN admissions
    /\ Range(row.assigned_bed) \subseteq DOMAIN beds
    /\ admissions' = [admissions EXCEPT ![id] = row]
    /\ UNCHANGED <<idle, request, response, now, departments, patients, wards,
                   appointments, items, bills,
                   batches,
                   wardside, forms>>

NextAdmission ==
    \/ \E id \in AdmissionIds, row \in AdmissionRecords : AdmissionCreate(id, row)
    \/ \E id \in AdmissionIds, row \in AdmissionRecords : AdmissionUpdate(id, row)
    \/ Tick

SpecAdmission == InitStore /\ [][NextAdmission]_vars

\* ----------------------------------------------------- claims C6 .. C10
Slot(a) == <<a.doctor, a.appointment_date, a.appointment_time>>

\* the step answers a save of an Appointment
IsAppointmentSave == request'.view = "admin" /\ request'.model = "Appointment"

\* C6: no two stored Appointments share (doctor, appointment_date,
\* appointment_time), whatever their status; and a create or update that would
\* put an appointment into a slot another appointment holds raises
\* IntegrityError and leaves the stored appointments as they were.
C6_NoDoubleBooking ==
    /\ [](\A a, b \in DOMAIN appointments :
            a # b => Slot(appointments[a]) # Slot(appointments[b]))
    /\ [][(/\ IsAppointmentSave
           /\ \E b \in DOMAIN appointments \ {request'.id} :
                  Slot(appointments[b]) = Slot(request'.row)) =>
              /\ appointments' = appointments
              /\ response' = Raised("IntegrityError")]_vars

\* C6 witness: an update that moved an appointment into the slot of a
\* cancelled appointment was rejected.
C6_Witness ==
    /\ DOMAIN appointments = {"ap1", "ap2"}
    /\ appointments["ap1"].status = "cancelled"
    /\ request = SaveRequest("Appointment", "ap2",
                             [appointments["ap1"] EXCEPT !.status = "scheduled"])
    /\ response = Raised("IntegrityError")

\* C7: for every Ward available_beds is bed_capacity - current_occupancy and
\* is never negative.
C7_AvailableBedsNeverNegative ==
    \A w \in DOMAIN wards :
        /\ available_beds(wards[w]) = wards[w].bed_capacity - wards[w].current_occupancy
        /\ available_beds(wards[w]) >= 0

\* C8: for every Ward occupancy_rate is 0 when bed_capacity is 0, and is
\* otherwise the number r with r * bed_capacity = current_occupancy * 100.
C8_OccupancyRate ==
    \A w \in DOMAIN wards :
        LET r == occupancy_rate(wards[w]) IN
        /\ r[2] > 0
        /\ IF wards[w].bed_capacity = 0
           THEN r[1] = 0
           ELSE r[1] * wards[w].bed_capacity = wards[w].current_occupancy * 100 * r[2]

\* C8 witness: a ward without beds but with occupancy has rate 0, and a ward
\* half full has rate 50.
C8_Witness ==
    /\ DOMAIN wards = WardIds
    /\ wards["w1"].bed_capacity = 0 /\ wards["w1"].current_occupancy = 1
    /\ occupancy_rate(wards["w1"]) = <<0, 1>>
    /\ wards["w2"].bed_capacity = 2 /\ wards["w2"].current_occupancy = 1
    /\ occupancy_rate(wards["w2"]) = <<50, 1>>

\* C9: every stored PrescriptionItem has total_price = quantity_dispensed *
\* unit_price, whatever total_price its saves were given.
C9_TotalPriceRecomputed ==
    \A i \in DOMAIN items :
        items[i].total_price = items[i].quantity_dispensed * items[i].unit_price

\* C9 witness: an update that supplied total_price 999 stored 2 * 150 = 300.
C9_Witness ==
    /\ "i1" \in DOMAIN items
    /\ request = SaveRequest("PrescriptionItem", "i1",
                             [prescription |-> "rx1", quantity_dispensed |-> 2,
                              unit_price |-> 150, total_price |-> 999])
    /\ response = Saved
    /\ items["i1"].total_price = 300

\* C10: for every Admission, length_of_stay is the number of whole days from
\* admission_date to discharge_date when discharge_date is set and to now when
\* it is not: the largest n with n days <= end - admission_date.
C10_LengthOfStay ==
    \A a \in DOMAIN admissions :
        LET n == length_of_stay(admissions[a])
            end == IF admissions[a].discharge_date = <<>> THEN now
                   ELSE admissions[a].discharge_date[1]
        IN  /\ n * TicksPerDay <= end - admissions[a].admission_date
            /\ end - admissions[a].admission_date < (n + 1) * TicksPerDay

\* C10 witness: an admission discharged within a day has length_of_stay 0 a
\* day after it began, and the open admission beside it has 1; an admission
\* discharged before it was admitted has -1.
C10_Witness ==
    /\ DOMAIN admissions = AdmissionIds
    /\ now = StartTick + TicksPerDay
    /\ admissions["a1"].admission_date = StartTick
    /\ admissions["a1"].discharge_date = <<StartTick + 1>>
    /\ length_of_stay(admissions["a1"]) = 0
    /\ admissions["a2"].admission_date = StartTick
    /\ admissions["a2"].discharge_date = <<>>
    /\ length_of_stay(admissions["a2"]) = 1

\* ---------------------------------------------------- models.py: Bill, saves
BillDueDates == {StartDay, StartDay + 1}
BillTotals == {200, 300}
BillPayments == {0, 100}

BillRecords ==
    [bill_date : {StartTick}, due_date : BillDueDates, status : BILL_STATUS,
     total_amount : BillTotals, paid_amount : BillPayments, admission : {<<>>}]

\* Bill.save(): the row is stored as given
BillWrite(id, row) ==
    /\ Range(row.admission) \subseteq DOMAIN admissions
    /\ bills' = [b \in DOMAIN bills \cup {id} |-> IF b = id THEN row ELSE bills[b]]
    /\ request' = SaveRequest("Bill", id, row)
    /\ response' = Saved
    /\ UNCHANGED <<idle, now, departments, patients, wards, appointments, items,
                   admissions, batches,
                   wardside, forms>>

\* BillAdmin add view
BillCreate(id, row) ==
    /\ id \notin DOMAIN bills
    /\ BillWrite(id, row)

\* BillAdmin change view
BillUpdate(id, row) ==
    /\ id \in DOMAIN bills
    /\ BillWrite(id, row)

NextBill ==
    \/ \E id \in BillIds, row \in BillRecords : BillCreate(id, row)
    \/ \E id \in BillIds, row \in BillRecords : BillUpdate(id, row)
    \/ Tick

SpecBill == InitStore /\ [][NextBill]_vars

\* ------------------------------------------ models.py: Admission.status
StatusRecords ==
    [admission_date : {StartTick}, discharge_date : {<<>>, <<StartTick + 1>>},
     status : ADMISSION_STATUS, assigned_bed : {<<>>, <<"bed1">>},
     patient : {"p1"}]

\* a change of a stored row from what was loaded to what is saved, as the
\* request the last step answered
ChangeRequest(model, id, loaded, row) ==
    [view |-> "admin", method |-> "POST", username |-> "", password |-> "",
     chart_type |-> "", model |-> model, id |-> id, loaded |-> loaded,
     row |-> row]

\* (faulty variant: a patient who leaves 'admitted' gives up the bed)
save_status_releasing_bed(row, status) ==
    [row EXCEPT !.status = status,
                !.assigned_bed = IF status = "admitted" THEN @ ELSE <<>>]

\* admission.status = status; admission.save(): status has choices but no
\* validator on the transition, and Admission has no save() or clean() of
\* its own, so the row is written with the one field changed
save_status(row, status) == [row EXCEPT !.status = status]

\* AdmissionAdmin change view with another (or the same) status chosen
AdmissionSetStatus(id, status) ==
    /\ id \in DOMAIN admissions
    /\ admissions' = [admissions EXCEPT ![id] = save_status(admissions[id], status)]
    /\ request' = ChangeRequest("Admission", id, admissions[id],
                                save_status(admissions[id], status))
    /\ response' = Saved
    /\ UNCHANGED <<idle, now, departments, patients, wards, appointments, items,
                   bills, batches,
                   wardside, forms>>

NextStatus ==
    \/ \E id \in AdmissionIds, row \in StatusRecords : AdmissionCreate(id, row)
    \/ \E id \in AdmissionIds, status \in ADMISSION_STATUS :
            AdmissionSetStatus(id, status)

\* one ward with one bed is stored, and no admission
InitStatus ==
    InitRows("w1" :> [name |-> "Medical", is_active |-> TRUE, department |-> "d1",
                      bed_capacity |-> 1, current_occupancy |-> 0],
             "bed1" :> [ward |-> "w1", status |-> "available", is_active |-> TRUE],
             NoRows)

SpecStatus == InitStatus /\ [][NextStatus]_vars

\* ------------------------------------------------- models.py: Patient, saves
ReferenceDays ==
    {ToDay(2024, 6, 14), ToDay(2024, 6, 15), ToDay(2025, 2, 28), ToDay(2025, 3, 1)}
BirthDays == {ToDay(2000, 6, 14), ToDay(2000, 6, 15), ToDay(2000, 2, 29)}
EstimatedAges == {0, 5}

\* the Patient instances a caller builds
PatientRecords ==
    [is_active : {TRUE}, created_at : {StartTick},
     date_of_birth : {<<>>} \cup {<<d>> : d \in BirthDays},
     estimated_age : {<<>>} \cup {<<n>> : n \in EstimatedAges}]

\* Patient.save(): date_of_birth is a DateField without null=True, so a row
\* without it violates NOT NULL and nothing is stored
PatientWrite(id, row) ==
    /\ request' = SaveRequest("Patient", id, row)
    /\ IF row.date_of_birth # <<>>
       THEN /\ patients' = [p \in DOMAIN patients \cup {id} |->
                               IF p = id THEN row ELSE patients[p]]
            /\ response' = Saved
       ELSE /\ patients' = patients
            /\ response' = Raised("IntegrityError")
    /\ UNCHANGED <<idle, now, departments, wards, appointments, items, admissions,
                   bills, batches,
                   wardside, forms>>

\* PatientAdmin add view
PatientCreate(id, row) ==
    /\ id \notin DOMAIN patients
    /\ PatientWrite(id, row)

\* PatientAdmin change view
PatientUpdate(id, row) ==
    /\ id \in DOMAIN patients
    /\ PatientWrite(id, row)

\* Patient(...).age read on an instance, stored or not
PatientAgeRead(row) ==
    /\ request' = PropertyRead("Patient.age", row)
    /\ response' = age(row)
    /\ UNCHANGED <<idle, now, store, forms>>

\* the store is empty and the current date is any of the reference days
InitPatient ==
    /\ IdleWeb
    /\ now \in {d * TicksPerDay : d \in ReferenceDays}
    /\ departments = NoRows /\ patients = NoRows /\ wards = NoRows
    /\ appointments = NoRows /\ items = NoRows /\ admissions = NoRows
    /\ bills = NoRows /\ batches = NoRows
    /\ beds = NoRows /\ transfers = NoRows /\ prescriptions = NoRows
    /\ bill_items = NoRows /\ lab_orders = NoRows /\ lab_results = NoRows
    /\ forms = NoRows

NextPatient ==
    \/ \E id \in PatientIds, row \in PatientRecords : PatientCreate(id, row)
    \/ \E id \in PatientIds, row \in PatientRecords : PatientUpdate(id, row)
    \/ \E row \in PatientRecords : PatientAgeRead(row)

SpecPatient == InitPatient /\ [][NextPatient]_vars

\* ------------------------------------------- models.py: MedicineBatch, saves
ExpiryDates == {StartDay - 1, StartDay, StartDay + 1}

BatchRecords == [expiry_date : ExpiryDates, quantity_remaining : 0..MaxQty]

\* MedicineBatchAdmin add view: MedicineBatch.save() of a new row
BatchCreate(id, row) ==
    /\ id \notin DOMAIN batches
    /\ batches' = batches @@ (id :> row)
    /\ UNCHANGED <<idle, request, response, now, departments, patients, wards,
                   appointments, items, admissions, bills,
                   wardside, forms>>

\* MedicineBatchAdmin change view: MedicineBatch.save() of an existing row
BatchUpdate(id, row) ==
    /\ id \in DOMAIN batches
    /\ batches' = [batches EXCEPT ![id] = row]
    /\ UNCHANGED <<idle, request, response, now, departments, patients, wards,
                   appointments, items, admissions, bills,
                   wardside, forms>>

NextBatch ==
    \/ \E id \in BatchIds, row \in BatchRecords : BatchCreate(id, row)
    \/ \E id \in BatchIds, row \in BatchRecords : BatchUpdate(id, row)
    \/ Tick

SpecBatch == InitStore /\ [][NextBatch]_vars

\* ---------------------------------------------------- models.py: User, saves
StaffNames == UserNames \cup {"carol"}
EmployeeNumbers == {"EMP-1", "EMP-2"}

\* national_id as a caller supplies it; a CharField that is given no value
\* holds its default, the empty string
NationalIds == {"", "1234567", "7654321"}

\* employee_number: unique=True, null=True; NULLs never collide
unique_employee_number(rows) ==
    \A a, b \in DOMAIN rows :
        (a # b /\ rows[a].employee_number # <<>>) =>
            rows[a].employee_number # rows[b].employee_number

\* national_id: unique=True on a column that is not nullable, so the
\* constraint compares every value, the empty string included
unique_national_id(rows) ==
    \A a, b \in DOMAIN rows :
        a # b => rows[a].national_id # rows[b].national_id

\* a new User with the fields the caller gave
NewUser(employee_number, national_id) ==
    [role |-> "registered_nurse", password |-> "pw-new", is_active |-> TRUE,
     first_name |-> "", last_login |-> <<>>,
     employee_number |-> employee_number, national_id |-> national_id]

\* User.save(): the write is committed when both columns keep their unique
\* constraint, and raises IntegrityError otherwise
UserWrite(u, row) ==
    LET written == [x \in DOMAIN users \cup {u} |->
                        IF x = u THEN row ELSE users[x]] IN
    /\ request' = SaveRequest("User", u, row)
    /\ IF unique_employee_number(written) /\ unique_national_id(written)
       THEN /\ users' = written
            /\ response' = Saved
       ELSE /\ users' = users
            /\ response' = Raised("IntegrityError")
    /\ UNCHANGED <<session, now, store, forms>>

\* User.objects.create(...) / CustomUserAdmin add view
UserCreate(u, employee_number, national_id) ==
    /\ u \notin DOMAIN users
    /\ UserWrite(u, NewUser(employee_number, national_id))

\* user.save() of an existing row / CustomUserAdmin change view
UserUpdate(u, employee_number, national_id) ==
    /\ u \in DOMAIN users
    /\ UserWrite(u, [users[u] EXCEPT !.employee_number = employee_number,
                                     !.national_id = national_id])

NextUser ==
    \/ \E u \in StaffNames, n \in NationalIds,
          e \in {<<>>} \cup {<<x>> : x \in EmployeeNumbers} : UserCreate(u, e, n)
    \/ \E u \in StaffNames, n \in NationalIds,
          e \in {<<>>} \cup {<<x>> : x \in EmployeeNumbers} : UserUpdate(u, e, n)

SpecUser == InitStore /\ [][NextUser]_vars

\* ---------------------------------------------------- claims C11 .. C20
OPEN_STATUS == {"pending", "partially_paid"}

\* C11: for every Bill and every current date, is_overdue is true if and only
\* if status is 'pending' or 'partially_paid' and due_date is strictly before
\* today; a bill due today, and a bill in any other status (the stored status
\* 'overdue' included), is not is_overdue.
C11_IsOverdue ==
    \A b \in DOMAIN bills :
        /\ is_overdue(bills[b]) <=>
                (bills[b].status \in OPEN_STATUS /\ bills[b].due_date + 1 <= today)
        /\ bills[b].due_date = today => ~is_overdue(bills[b])
        /\ bills[b].status \notin OPEN_STATUS => ~is_overdue(bills[b])

\* C11 witness: the day after their due date a partially paid bill is overdue
\* and a bill stored as 'overdue' is not; the partially paid bill was not
\* overdue on a due date of today.
C11_Witness ==
    /\ DOMAIN bills = BillIds
    /\ today = StartDay + 1
    /\ bills["b1"].status = "partially_paid" /\ bills["b1"].due_date = StartDay
    /\ is_overdue(bills["b1"])
    /\ bills["b2"].status = "overdue" /\ bills["b2"].due_date = StartDay
    /\ ~is_overdue(bills["b2"])

\* C12: for every Bill balance_amount is total_amount - paid_amount of the
\* fields as they are stored at the read: it adds up with paid_amount to
\* total_amount in every state, and across every step it moves by exactly the
\* change of total_amount less the change of paid_amount.
C12_BalanceAmount ==
    /\ [](\A b \in DOMAIN bills :
            balance_amount(bills[b]) + bills[b].paid_amount = bills[b].total_amount)
    /\ [][\A b \in DOMAIN bills \cap DOMAIN bills' :
            balance_amount(bills'[b]) - balance_amount(bills[b]) =
                (bills'[b].total_amount - bills[b].total_amount) -
                (bills'[b].paid_amount - bills[b].paid_amount)]_vars

\* C12 witness: a save that recorded a payment of 100 on a bill of 300 is
\* followed by a balance of 200, beside an unpaid bill of 200.
C12_Witness ==
    /\ DOMAIN bills = BillIds
    /\ request.view = "admin" /\ request.model = "Bill" /\ request.id = "b1"
    /\ request.row.total_amount = 300 /\ request.row.paid_amount = 100
    /\ balance_amount(bills["b1"]) = 200
    /\ bills["b2"].paid_amount = 0
    /\ balance_amount(bills["b2"]) = 200

\* the (year, month, day) of a day number
YMD(n) == <<Year(n), Month(n), DayOfMonth(n)>>

\* a date (y, m, d) is not after another, in calendar order
NotAfter(a, b) ==
    \/ a[1] < b[1]
    \/ a[1] = b[1] /\ a[2] < b[2]
    \/ a[1] = b[1] /\ a[2] = b[2] /\ a[3] <= b[3]

\* C13: for every Patient with a date_of_birth and every current date, age is
\* the number of full years elapsed since the date of birth: the anniversary
\* of that number is today or earlier (the birthday itself counts as reached)
\* and the next one is still to come; a date of birth of 2000-06-15 gives 23
\* on 2024-06-14 and 24 on 2024-06-15.
C13_Age ==
    \A id \in DOMAIN patients :
        patients[id].date_of_birth # <<>> =>
            LET dob == YMD(patients[id].date_of_birth[1])
                result == age(patients[id])
                n == result.body.value
                Anniversary(k) == <<dob[1] + k, dob[2], dob[3]>>
            IN  /\ result.kind = "value"
                /\ NotAfter(Anniversary(n), YMD(today))
                /\ ~NotAfter(Anniversary(n + 1), YMD(today))
                /\ n = Year(today) - dob[1] -
                       (IF TupleLess(<<Month(today), DayOfMonth(today)>>,
                                     <<dob[2], dob[3]>>) THEN 1 ELSE 0)
                /\ (dob = <<2000, 6, 15>> /\ YMD(today) = <<2024, 6, 14>>) => n = 23
                /\ (dob = <<2000, 6, 15>> /\ YMD(today) = <<2024, 6, 15>>) => n = 24

\* C13 witness: on 2024-06-14 the patient born on 2000-06-15 is 23 and the
\* patient born on 2000-06-14, whose birthday is today, is 24.
C13_Witness ==
    /\ DOMAIN patients = PatientIds
    /\ YMD(today) = <<2024, 6, 14>>
    /\ YMD(patients["p1"].date_of_birth[1]) = <<2000, 6, 15>>
    /\ age(patients["p1"]) = Returned(23)
    /\ YMD(patients["p2"].date_of_birth[1]) = <<2000, 6, 14>>
    /\ age(patients["p2"]) = Returned(24)

\* C14: for every MedicineBatch and every current date, is_expired is true if
\* and only if today is strictly after expiry_date, which is exactly when
\* days_to_expiry is negative; a batch expiring today is not expired and has
\* days_to_expiry 0.
C14_Expiry ==
    \A b \in DOMAIN batches :
        /\ is_expired(batches[b]) <=> batches[b].expiry_date + 1 <= today
        /\ is_expired(batches[b]) <=> days_to_expiry(batches[b]) < 0
        /\ today + days_to_expiry(batches[b]) = batches[b].expiry_date
        /\ batches[b].expiry_date = today =>
                ~is_expired(batches[b]) /\ days_to_expiry(batches[b]) = 0

\* C14 witness: after midnight the batch that expired the day before is
\* expired with days_to_expiry -1, and the batch that expires today is not.
C14_Witness ==
    /\ DOMAIN batches = BatchIds
    /\ today = StartDay + 1
    /\ batches["mb1"].expiry_date = StartDay
    /\ is_expired(batches["mb1"]) /\ days_to_expiry(batches["mb1"]) = 0 - 1
    /\ batches["mb2"].expiry_date = today
    /\ ~is_expired(batches["mb2"]) /\ days_to_expiry(batches["mb2"]) = 0

\* the step answers a save of a User
IsUserSave == request'.view = "admin" /\ request'.model = "User"

\* the row shares a present employee_number or a present national_id with
\* another stored user
SharesPresentValue(u, row) ==
    \E x \in DOMAIN users \ {u} :
        \/ row.employee_number # <<>> /\ users[x].employee_number = row.employee_number
        \/ row.national_id # "" /\ users[x].national_id = row.national_id

\* C15: no two stored users share an employee_number or a national_id that is
\* present; a write that would make two users share a present value is
\* rejected and leaves the users as they were; and every other write is
\* stored, so that any number of users without employee_number or without
\* national_id coexist.
C15_UniqueWhenPresent ==
    /\ [](\A a, b \in DOMAIN users :
            a # b =>
                /\ users[a].employee_number # <<>> =>
                        users[a].employee_number # users[b].employee_number
                /\ users[a].national_id # "" =>
                        users[a].national_id # users[b].national_id)
    /\ [][IsUserSave =>
            IF SharesPresentValue(request'.id, request'.row)
            THEN users' = users /\ response' = Raised("IntegrityError")
            ELSE /\ response' = Saved
                 /\ request'.id \in DOMAIN users'
                 /\ users'[request'.id] = request'.row]_vars

\* C16 as stated: for every Admission whose status is 'admitted',
\* length_of_stay is the whole-day count from admission_date to now; only
\* admissions that are no longer 'admitted' are measured to their
\* discharge_date.
C16_AdmittedMeasuredToNow ==
    \A a \in DOMAIN admissions :
        IF admissions[a].status = "admitted"
        THEN length_of_stay(admissions[a]) = Days(admissions[a].admission_date, now)
        ELSE admissions[a].discharge_date # <<>> =>
                length_of_stay(admissions[a]) =
                    Days(admissions[a].admission_date,
                         admissions[a].discharge_date[1])

\* C16 amended: length_of_stay is decided by discharge_date, not by status:
\* every Admission without a discharge_date, whatever its status, is measured
\* in whole days from admission_date to now, and every Admission with a
\* discharge_date, one whose status is still 'admitted' included, is measured
\* to that discharge_date.
C16_MeasuredByDischargeDate ==
    \A a \in DOMAIN admissions :
        \A status \in ADMISSION_STATUS :
            LET r == [admissions[a] EXCEPT !.status = status] IN
            IF r.discharge_date = <<>>
            THEN length_of_stay(r) = Days(r.admission_date, now)
            ELSE length_of_stay(r) = Days(r.admission_date, r.discharge_date[1])

\* C16 witness: a day after both were admitted, an admission still 'admitted'
\* but with a discharge_date on the admission day has length_of_stay 0, and an
\* admitted one without discharge_date has 1.
C16_Witness ==
    /\ DOMAIN admissions = AdmissionIds
    /\ now = StartTick + TicksPerDay
    /\ admissions["a1"].status = "admitted"
    /\ admissions["a1"].admission_date = StartTick
    /\ admissions["a1"].discharge_date = <<StartTick>>
    /\ length_of_stay(admissions["a1"]) = 0
    /\ admissions["a2"].status = "admitted"
    /\ admissions["a2"].admission_date = StartTick
    /\ admissions["a2"].discharge_date = <<>>
    /\ length_of_stay(admissions["a2"]) = 1

\* C17: when age has been read on a Patient without date_of_birth whose
\* estimated_age is set to any non-negative integer, 0 included, the read
\* returned estimated_age and raised nothing; and on a Patient with a
\* date_of_birth it returned the age derived from date_of_birth, whatever
\* estimated_age is.
C17_EstimatedAge ==
    request.view = "Patient.age" =>
        LET p == request.row IN
        /\ (p.date_of_birth = <<>> /\ p.estimated_age # <<>>) =>
                response = Returned(p.estimated_age[1])
        /\ p.date_of_birth # <<>> =>
                /\ response.kind = "value"
                /\ response = age([p EXCEPT !.estimated_age = <<>>])

\* the step answers a change of an Admission's status
IsStatusChange ==
    /\ request' # request
    /\ request'.view = "admin" /\ request'.model = "Admission"

C19_PendingBills ==
    (request.view = "dashboard" /\ session # AnonymousUser) =>
        /\ response.kind = "render"
        /\ response.body.context.pending_bills =
              SumOver(Filter(bills, LAMBDA b : b.status \in OPEN_STATUS),
                      [id \in DOMAIN bills |-> balance_amount(bills[id])])

\* the calendar month k months before the month of day n, as <<month, year>>
MonthsBack(n, k) ==
    LET months == Year(n) * 12 + (Month(n) - 1) - k
    IN  <<(months % 12) + 1, months \div 12>>

\* C20: when chart_data 'monthly_admissions' has answered an authenticated
\* session, its series has exactly six entries, oldest first; entry i is
\* labelled with the calendar month 6 - i months before the current month, so
\* the six labels are the six consecutive months ending with the current one;
\* and its count is the number of Admissions whose admission_date falls
\* between the first and the last day of that calendar month.
C20_MonthlyAdmissions ==
    (/\ request.view = "chart_data"
     /\ request.chart_type = "monthly_admissions"
     /\ session # AnonymousUser) =>
        LET data == response.body.data IN
        /\ Len(data) = 6
        /\ \A i \in 1..6 :
              LET label == MonthsBack(today, 6 - i)
                  first == ToDay(label[2], label[1], 1)
                  last == first + DaysInMonth(label[2], label[1]) - 1
              IN  /\ data[i].month = label
                  /\ data[i].count = Cardinality(AdmittedIn(first, last))

\* ---------------------------------------------------- claims C21 .. C30
\* the department of an admission: that of the ward of its assigned bed
InDepartment(a, d) ==
    /\ a.assigned_bed # <<>>
    /\ a.assigned_bed[1] \in DOMAIN beds
    /\ beds[a.assigned_bed[1]].ward \in DOMAIN wards
    /\ wards[beds[a.assigned_bed[1]].ward].department = d

\* the number of admissions of department d with status 'admitted'
AdmittedOf(d) ==
    Cardinality(Filter(admissions,
                       LAMBDA a : a.status = "admitted" /\ InDepartment(a, d)))

\* C21: when chart_data 'department_patients' has answered an authenticated
\* session, the answer lists at most five departments, each once and with the
\* number of its admissions whose status is 'admitted', and no department
\* left out has more of them than a department that is listed.
C21_DepartmentDistribution ==
    (/\ request.view = "chart_data"
     /\ request.chart_type = "department_patients"
     /\ session # AnonymousUser) =>
        /\ response.kind = "json"
        /\ \E listed \in SUBSET DOMAIN departments :
              /\ Cardinality(listed) = Min(5, Cardinality(DOMAIN departments))
              /\ \E s \in Orderings(listed) :
                    response.body.data =
                        [i \in 1..Len(s) |->
                            [name |-> departments[s[i]].name,
                             patient_count |-> AdmittedOf(s[i])]]
              /\ \A d \in DOMAIN departments \ listed, e \in listed :
                    AdmittedOf(d) <= AdmittedOf(e)

\* C22: when dashboard has answered an authenticated session, it rendered a
\* bed_occupancy_rate that is, to one decimal, the number of Admissions with
\* status 'admitted' over the number of active Beds times 100, and 0 when there
\* is no active Bed.
C22_BedOccupancyRate ==
    (request.view = "dashboard" /\ session # AnonymousUser) =>
        /\ response.kind = "render"
        /\ LET rate == response.body.context.bed_occupancy_rate
               admitted == Cardinality({a \in DOMAIN admissions :
                                            admissions[a].status = "admitted"})
               active == Cardinality({b \in DOMAIN beds : beds[b].is_active})
           IN  IF active = 0 THEN rate = 0
               ELSE /\ 2 * (rate * active - 1000 * admitted) <= active
                    /\ 2 * (1000 * admitted - rate * active) <= active

\* C23: a read endpoint leaves every stored record unchanged, and when the
\* request it answers is identical to the request answered just before, by
\* the same session on the same date with no write in between, it returns the
\* same data.
C23_ReadOnlyAndDeterministic ==
    [][request'.view \in READ_VIEWS =>
          /\ store' = store
          /\ users' = users
          /\ (request' = request /\ session' = session /\ today' = today)
                 => response' = response]_vars

\* ------------------------------------- admin.py: WardAdmin, change forms
\* the staff users who have the admin site open
Editors == {"e1", "e2"}

\* WardAdmin change view, GET: the form is filled from the row as it is stored
WardChangeGet(e, id) ==
    /\ id \in DOMAIN wards
    /\ forms' = [x \in DOMAIN forms \cup {e} |->
                    IF x = e
                    THEN [id |-> id, loaded |-> wards[id], state |-> "open"]
                    ELSE forms[x]]
    /\ UNCHANGED <<idle, request, response, now, store>>

\* (faulty variant: a save of a form whose row has changed since it was loaded
\* is rejected)
WardChangePost_checked(e) ==
    /\ e \in DOMAIN forms
    /\ forms[e].state = "open"
    /\ forms[e].loaded.current_occupancy < MaxBeds
    /\ IF wards[forms[e].id] = forms[e].loaded
       THEN /\ wards' = [wards EXCEPT ![forms[e].id] =
                            [forms[e].loaded EXCEPT !.current_occupancy = @ + 1]]
            /\ forms' = [forms EXCEPT ![e].state = "saved"]
       ELSE /\ wards' = wards
            /\ forms' = [forms EXCEPT ![e].state = "rejected"]
    /\ UNCHANGED <<idle, request, response, now, departments, patients,
                   appointments, items, admissions, bills, batches, wardside>>

\* WardAdmin change view, POST: the editor has added one to current_occupancy
\* in the form; Ward.save() writes every field of the form
WardChangePost(e) ==
    /\ e \in DOMAIN forms
    /\ forms[e].state = "open"
    /\ forms[e].loaded.current_occupancy < MaxBeds
    /\ wards' = [wards EXCEPT ![forms[e].id] =
                    [forms[e].loaded EXCEPT !.current_occupancy = @ + 1]]
    /\ forms' = [forms EXCEPT ![e].state = "saved"]
    /\ UNCHANGED <<idle, request, response, now, departments, patients,
                   appointments, items, admissions, bills, batches, wardside>>

InitWardEdit ==
    InitRows([id \in WardIds |->
                 [name |-> "Medical", is_active |-> TRUE, department |-> "d1",
                  bed_capacity |-> MaxBeds, current_occupancy |-> 0]],
             NoRows, NoRows)

NextWardEdit ==
    \/ \E e \in Editors, id \in WardIds : WardChangeGet(e, id)
    \/ \E e \in Editors : WardChangePost(e)

SpecWardEdit == InitWardEdit /\ [][NextWardEdit]_vars

\* C24: nothing guards Ward.current_occupancy against a concurrent change:
\* a form that is open can always be saved, also when the stored row is no
\* longer the one the form was loaded from, and every save ends saved (never
\* rejected, never redone) with the stored value one above the value the form
\* was loaded with.
C24_NoLocking ==
    /\ [](\A e \in DOMAIN forms :
             (forms[e].state = "open"
                  /\ forms[e].loaded.current_occupancy < MaxBeds)
                 => ENABLED WardChangePost(e))
    /\ [][\A e \in DOMAIN forms :
             (forms[e].state = "open" /\ forms'[e].state # "open") =>
                 /\ forms'[e].state = "saved"
                 /\ wards'[forms[e].id].current_occupancy =
                        forms[e].loaded.current_occupancy + 1]_vars

\* two editors have loaded the same ward with the same value and both have
\* saved; the stored value is only one above the loaded one
C24_Witness ==
    /\ DOMAIN forms = Editors
    /\ \A e \in Editors : forms[e].state = "saved"
    /\ forms["e1"].id = forms["e2"].id
    /\ forms["e1"].loaded = forms["e2"].loaded
    /\ wards[forms["e1"].id].current_occupancy =
           forms["e1"].loaded.current_occupancy + 1

\* ------------------------------------------ models.py: on_delete, deletion
LabOrderIds == {"lo1"}
LabResultIds == {"lr1"}
BillItemIds == {"bi1"}

\* the rows of table f but those with an id in S
Without(f, S) == [x \in DOMAIN f \ S |-> f[x]]

\* the POST of an admin delete view, confirmed
DeleteRequest(model, id) ==
    [view |-> "admin", method |-> "POST", username |-> "", password |-> "",
     chart_type |-> "", model |-> model, id |-> id, action |-> "delete"]

\* (faulty variant: only the named rows are deleted, every row that refers to
\* them stays as it is)
delete_parent_only(dw, db, da, dp, dl, dbill) ==
    /\ wards' = Without(wards, dw)
    /\ beds' = Without(beds, db)
    /\ admissions' = Without(admissions, da)
    /\ prescriptions' = Without(prescriptions, dp)
    /\ lab_orders' = Without(lab_orders, dl)
    /\ bills' = Without(bills, dbill)
    /\ UNCHANGED <<idle, now, departments, patients,
                   appointments, batches, forms,
                   transfers, items, lab_results, bill_items>>

\* Model.delete() of the wards dw, beds db, admissions da, prescriptions dp,
\* lab orders dl and bills dbill: every row that refers to a deleted row through
\* an on_delete=CASCADE key is deleted with it, and a SET_NULL key is cleared
delete(dw, db, da, dp, dl, dbill) ==
    LET gone_beds == db \cup {b \in DOMAIN beds : beds[b].ward \in dw}
        gone_orders == dl \cup {l \in DOMAIN lab_orders :
                                    Range(lab_orders[l].admission) \cap da # {}}
        gone_bills == dbill \cup {b \in DOMAIN bills :
                                      Range(bills[b].admission) \cap da # {}}
    IN  /\ wards' = Without(wards, dw)
        /\ beds' = Without(beds, gone_beds)
        /\ transfers' =
               Without(transfers,
                       {t \in DOMAIN transfers :
                            \/ transfers[t].admission \in da
                            \/ Range(transfers[t].from_bed) \cap gone_beds # {}
                            \/ transfers[t].to_bed \in gone_beds})
        /\ admissions' =
               [a \in DOMAIN admissions \ da |->
                   IF Range(admissions[a].assigned_bed) \cap gone_beds # {}
                   THEN [admissions[a] EXCEPT !.assigned_bed = <<>>]
                   ELSE admissions[a]]
        /\ prescriptions' = Without(prescriptions, dp)
        /\ items' = Without(items, {i \in DOMAIN items : items[i].prescription \in dp})
        /\ lab_orders' = Without(lab_orders, gone_orders)
        /\ lab_results' =
               Without(lab_results,
                       {r \in DOMAIN lab_results : lab_results[r].lab_order \in gone_orders})
        /\ bills' = Without(bills, gone_bills)
        /\ bill_items' =
               Without(bill_items,
                       {i \in DOMAIN bill_items : bill_items[i].bill \in gone_bills})
        /\ UNCHANGED <<idle, now, departments, patients,
                       appointments, batches, forms>>

\* WardAdmin delete view
WardDelete(id) ==
    /\ id \in DOMAIN wards
    /\ delete({id}, {}, {}, {}, {}, {})
    /\ request' = DeleteRequest("Ward", id)
    /\ response' = Saved

\* BedAdmin delete view
BedDelete(id) ==
    /\ id \in DOMAIN beds
    /\ delete({}, {id}, {}, {}, {}, {})
    /\ request' = DeleteRequest("Bed", id)
    /\ response' = Saved

\* AdmissionAdmin delete view
AdmissionDelete(id) ==
    /\ id \in DOMAIN admissions
    /\ delete({}, {}, {id}, {}, {}, {})
    /\ request' = DeleteRequest("Admission", id)
    /\ response' = Saved

\* PrescriptionAdmin delete view
PrescriptionDelete(id) ==
    /\ id \in DOMAIN prescriptions
    /\ delete({}, {}, {}, {id}, {}, {})
    /\ request' = DeleteRequest("Prescription", id)
    /\ response' = Saved

\* LabOrderAdmin delete view
LabOrderDelete(id) ==
    /\ id \in DOMAIN lab_orders
    /\ delete({}, {}, {}, {}, {id}, {})
    /\ request' = DeleteRequest("LabOrder", id)
    /\ response' = Saved

\* BillAdmin delete view
BillDelete(id) ==
    /\ id \in DOMAIN bills
    /\ delete({}, {}, {}, {}, {}, {id})
    /\ request' = DeleteRequest("Bill", id)
    /\ response' = Saved

\* BedAdmin add view
BedCreate(id, row) ==
    /\ id \notin DOMAIN beds
    /\ row.ward \in DOMAIN wards
    /\ beds' = beds @@ (id :> row)
    /\ UNCHANGED <<idle, request, response, now, departments, patients, wards,
                   appointments, items, admissions, bills, batches, forms,
                   transfers, prescriptions, bill_items, lab_orders, lab_results>>

\* BedTransferAdmin add and change views: BedTransfer.save()
TransferWrite(id, row) ==
    /\ row.admission \in DOMAIN admissions
    /\ Range(row.from_bed) \subseteq DOMAIN beds
    /\ row.to_bed \in DOMAIN beds
    /\ transfers' = [t \in DOMAIN transfers \cup {id} |->
                        IF t = id THEN row ELSE transfers[t]]
    /\ UNCHANGED <<idle, request, response, now, departments, patients, wards,
                   appointments, items, admissions, bills, batches, forms,
                   beds, prescriptions, bill_items, lab_orders, lab_results>>

\* BedTransferAdmin add view
TransferCreate(id, row) == id \notin DOMAIN transfers /\ TransferWrite(id, row)

\* BedTransferAdmin change view
TransferUpdate(id, row) == id \in DOMAIN transfers /\ TransferWrite(id, row)

\* BedTransferAdmin delete view
TransferDelete(id) ==
    /\ id \in DOMAIN transfers
    /\ transfers' = Without(transfers, {id})
    /\ UNCHANGED <<idle, request, response, now, departments, patients, wards,
                   appointments, items, admissions, bills, batches, forms,
                   beds, prescriptions, bill_items, lab_orders, lab_results>>

\* PrescriptionAdmin add view
PrescriptionCreate(id, row) ==
    /\ id \notin DOMAIN prescriptions
    /\ prescriptions' = prescriptions @@ (id :> row)
    /\ UNCHANGED <<idle, request, response, now, departments, patients, wards,
                   appointments, items, admissions, bills, batches, forms,
                   beds, transfers, bill_items, lab_orders, lab_results>>

\* LabOrderAdmin add view
LabOrderCreate(id, row) ==
    /\ id \notin DOMAIN lab_orders
    /\ Range(row.admission) \subseteq DOMAIN admissions
    /\ lab_orders' = lab_orders @@ (id :> row)
    /\ UNCHANGED <<idle, request, response, now, departments, patients, wards,
                   appointments, items, admissions, bills, batches, forms,
                   beds, transfers, prescriptions, bill_items, lab_results>>

\* LabResultAdmin add view
LabResultCreate(id, row) ==
    /\ id \notin DOMAIN lab_results
    /\ row.lab_order \in DOMAIN lab_orders
    /\ lab_results' = lab_results @@ (id :> row)
    /\ UNCHANGED <<idle, request, response, now, departments, patients, wards,
                   appointments, items, admissions, bills, batches, forms,
                   beds, transfers, prescriptions, bill_items, lab_orders>>

\* BillItemAdmin add view
BillItemCreate(id, row) ==
    /\ id \notin DOMAIN bill_items
    /\ row.bill \in DOMAIN bills
    /\ bill_items' = bill_items @@ (id :> row)
    /\ UNCHANGED <<idle, request, response, now, departments, patients, wards,
                   appointments, items, admissions, bills, batches, forms,
                   beds, transfers, prescriptions, lab_orders, lab_results>>

\* the rows the admin forms of this specification submit
CascadeWard ==
    [name |-> "Medical", is_active |-> TRUE, department |-> "d1",
     bed_capacity |-> MaxBeds, current_occupancy |-> 0]

CascadeBeds == [ward : WardIds, status : {"available"}, is_active : {TRUE}]

CascadeAdmissions ==
    [admission_date : {StartTick}, discharge_date : {<<>>}, status : {"admitted"},
     assigned_bed : {<<>>} \cup {<<b>> : b \in BedIds}, patient : {"p1"}]

CascadeTransfers ==
    [admission : {"a1"}, from_bed : {<<>>, <<"bed1">>}, to_bed : BedIds]

CascadeBill ==
    [bill_date |-> StartTick, due_date |-> StartDay, status |-> "pending",
     total_amount |-> 0, paid_amount |-> 0, admission |-> <<"a1">>]

NextCascade ==
    \/ \E id \in WardIds : WardCreate(id, CascadeWard)
    \/ \E id \in BedIds, row \in CascadeBeds : BedCreate(id, row)
    \/ \E row \in CascadeAdmissions : AdmissionCreate("a1", row)
    \/ \E row \in CascadeAdmissions : AdmissionUpdate("a1", row)
    \/ \E id \in TransferIds, row \in CascadeTransfers : TransferCreate(id, row)
    \/ \E id \in TransferIds, row \in CascadeTransfers : TransferUpdate(id, row)
    \/ \E id \in TransferIds : TransferDelete(id)
    \/ \E id \in PrescriptionIds : PrescriptionCreate(id, [status |-> "pending"])
    \/ ItemCreate("i1", "rx1", 1, 0, 0)
    \/ \E id \in LabOrderIds : LabOrderCreate(id, [admission |-> <<"a1">>])
    \/ \E id \in LabResultIds : LabResultCreate(id, [lab_order |-> "lo1"])
    \/ BillCreate("b1", CascadeBill)
    \/ \E id \in BillItemIds : BillItemCreate(id, [bill |-> "b1"])
    \/ \E id \in WardIds : WardDelete(id)
    \/ \E id \in BedIds : BedDelete(id)
    \/ AdmissionDelete("a1")
    \/ \E id \in PrescriptionIds : PrescriptionDelete(id)
    \/ \E id \in LabOrderIds : LabOrderDelete(id)
    \/ BillDelete("b1")

SpecCascade == InitStore /\ [][NextCascade]_vars

\* the ids of table f that are there before the step and gone after it
Deleted(f, g) == DOMAIN f \ DOMAIN g

\* C25: every Bed, PrescriptionItem, LabResult, BedTransfer and BillItem
\* refers to a Ward, Prescription, LabOrder, Admission or Bill that exists;
\* after a step that deletes such a parent none of its children remains; and
\* after a step that deletes a Bed (alone or with its Ward) every Admission
\* that had it as assigned_bed is still there, with assigned_bed cleared and
\* nothing else changed.
C25_CascadeDelete ==
    /\ [](/\ \A b \in DOMAIN beds : beds[b].ward \in DOMAIN wards
          /\ \A i \in DOMAIN items : items[i].prescription \in DOMAIN prescriptions
          /\ \A r \in DOMAIN lab_results :
                 lab_results[r].lab_order \in DOMAIN lab_orders
          /\ \A t \in DOMAIN transfers :
                 transfers[t].admission \in DOMAIN admissions
          /\ \A i \in DOMAIN bill_items : bill_items[i].bill \in DOMAIN bills)
    /\ [][/\ \A b \in DOMAIN beds :
                 beds[b].ward \in Deleted(wards, wards') => b \notin DOMAIN beds'
          /\ \A i \in DOMAIN items :
                 items[i].prescription \in Deleted(prescriptions, prescriptions')
                     => i \notin DOMAIN items'
          /\ \A r \in DOMAIN lab_results :
                 lab_results[r].lab_order \in Deleted(lab_orders, lab_orders')
                     => r \notin DOMAIN lab_results'
          /\ \A t \in DOMAIN transfers :
                 transfers[t].admission \in Deleted(admissions, admissions')
                     => t \notin DOMAIN transfers'
          /\ \A i \in DOMAIN bill_items :
                 bill_items[i].bill \in Deleted(bills, bills')
                     => i \notin DOMAIN bill_items'
          /\ \A a \in DOMAIN admissions :
                 Range(admissions[a].assigned_bed) \cap Deleted(beds, beds') # {}
                     => /\ a \in DOMAIN admissions'
                        /\ admissions'[a] =
                               [admissions[a] EXCEPT !.assigned_bed = <<>>]]_vars

\* a ward has just been deleted: no bed of it and no transfer is left, the
\* admission is still there without a bed, and the other ward keeps its bed
C25_Witness ==
    /\ request = DeleteRequest("Ward", "w1")
    /\ "w1" \notin DOMAIN wards
    /\ DOMAIN beds = {"bed2"}
    /\ transfers = NoRows
    /\ "a1" \in DOMAIN admissions
    /\ admissions["a1"].assigned_bed = <<>>
    /\ lab_results # NoRows /\ bill_items # NoRows /\ items # NoRows

\* C26: while its Admission exists, a BedTransfer is never removed and never
\* modified, whatever the step (deletions of beds and wards and edits through
\* the admin site included).
C26_TransfersAppendOnly ==
    [][\A t \in DOMAIN transfers :
           transfers[t].admission \in DOMAIN admissions' =>
               /\ t \in DOMAIN transfers'
               /\ transfers'[t] = transfers[t]]_vars

\* ------------------------------ admin.py: wards, beds and admissions edited
\* BedAdmin change view: Bed.save() of an existing row
BedUpdate(id, row) ==
    /\ id \in DOMAIN beds
    /\ row.ward \in DOMAIN wards
    /\ beds' = [beds EXCEPT ![id] = row]
    /\ UNCHANGED <<idle, request, response, now, departments, patients, wards,
                   appointments, items, admissions, bills, batches, forms,
                   transfers, prescriptions, bill_items, lab_orders, lab_results>>

\* the rows the admin forms of this specification submit
OccupancyWards ==
    [name : {"Medical"}, is_active : {TRUE}, department : {"d1"},
     bed_capacity : {MaxBeds}, current_occupancy : 0..MaxBeds]

OccupancyBeds ==
    [ward : {"w1"}, status : {"available", "occupied"}, is_active : BOOLEAN]

OccupancyAdmissions ==
    [admission_date : {StartTick}, discharge_date : {<<>>},
     status : {"admitted", "discharged"},
     assigned_bed : {<<>>} \cup {<<b>> : b \in BedIds}, patient : PatientIds]

\* one ward with two free beds and nobody admitted
InitOccupancy ==
    InitRows("w1" :> [name |-> "Medical", is_active |-> TRUE, department |-> "d1",
                      bed_capacity |-> MaxBeds, current_occupancy |-> 0],
             [b \in BedIds |->
                 [ward |-> "w1", status |-> "available", is_active |-> TRUE]],
             NoRows)

NextOccupancy ==
    \/ \E row \in OccupancyWards : WardUpdate("w1", row)
    \/ \E id \in BedIds, row \in OccupancyBeds : BedUpdate(id, row)
    \/ \E id \in AdmissionIds, row \in OccupancyAdmissions : AdmissionCreate(id, row)
    \/ \E id \in AdmissionIds, row \in OccupancyAdmissions : AdmissionUpdate(id, row)

SpecOccupancy == InitOccupancy /\ [][NextOccupancy]_vars

\* the admissions with status 'admitted' whose assigned_bed is bed b
AdmittedIn_bed(b) ==
    {a \in DOMAIN admissions :
         admissions[a].status = "admitted" /\ admissions[a].assigned_bed = <<b>>}

\* C27: for every Ward, current_occupancy is the number of its Beds with
\* status 'occupied', and that is the number of Admissions with status
\* 'admitted' whose assigned_bed is a Bed of the Ward.
C27_OccupancyConsistent ==
    \A w \in DOMAIN wards :
        LET own == {b \in DOMAIN beds : beds[b].ward = w}
        IN  /\ wards[w].current_occupancy =
                   Cardinality({b \in own : beds[b].status = "occupied"})
            /\ wards[w].current_occupancy =
                   Cardinality(UNION {AdmittedIn_bed(b) : b \in own})

\* C28: a Bed is the assigned_bed of at most one Admission with status
\* 'admitted', and a Patient has at most one Admission with status 'admitted'.
C28_OneAdmittedPerBedAndPatient ==
    /\ \A b \in DOMAIN beds : Cardinality(AdmittedIn_bed(b)) <= 1
    /\ \A p \in PatientIds :
           Cardinality({a \in DOMAIN admissions :
                            /\ admissions[a].status = "admitted"
                            /\ admissions[a].patient = p}) <= 1

\* C30: in every reachable state the dashboard's bed_occupancy_rate (in
\* tenths of a percent) lies between 0 and 100 percent, and current_admissions
\* plus available_beds is at most total_beds.
C30_DashboardBedFigures ==
    /\ bed_occupancy_rate \in 0..1000
    /\ current_admissions + dashboard_available_beds <= total_beds

\* the days of entry i of the monthly series
MonthRange(i) == month_start(i)..month_end(i)

\* C29: whatever the current date, the six monthly date ranges are pairwise
\* disjoint, so that no Admission is counted in two of them and the six counts
\* add up to at most the number of Admissions.
C29_MonthRangesDisjoint ==
    /\ \A i, j \in 0..5 : i # j => MonthRange(i) \cap MonthRange(j) = {}
    /\ Cardinality(AdmittedIn(month_start(0), month_end(0)))
         + Cardinality(AdmittedIn(month_start(1), month_end(1)))
         + Cardinality(AdmittedIn(month_start(2), month_end(2)))
         + Cardinality(AdmittedIn(month_start(3), month_end(3)))
         + Cardinality(AdmittedIn(month_start(4), month_end(4)))
         + Cardinality(AdmittedIn(month_start(5), month_end(5)))
           <= Cardinality(DOMAIN admissions)

====
